---- MODULE Spec2Model ----
(***************************************************************************)
(* Model of disk_puri.py: an interactive menu that assembles an ordered    *)
(* schema of dd invocations, then runs the schema a fixed or unlimited     *)
(* number of times, stopping at the first failed invocation.  A SIGINT     *)
(* handler removes the tracked temporary files and exits.                  *)
(***************************************************************************)
EXTENDS Integers, Sequences, FiniteSets, TLC

\* ------------------------------------------------------------------ bounds
\* Longest schema the menu is allowed to build.
MaxLen == 2
\* Largest repeat count the operator types.
MaxRepeat == 2
\* Runs explored when the repeat count is 0 (run forever).
MaxRuns == 2
\* Longest list of tracked temporary files.
MaxTemp == 1
\* Longest list of tracked temporary files when the ledger is looked at on
\* its own.
MaxTracked == 3
\* Longest captured error text, in chunks.
MaxErrLen == 3

\* --------------------------------------------------------------- constants
DEFAULT_DD_FLAGS == "bs=4M iflag=fullblock oflag=direct conv=fdatasync status=progress"

\* Python's None.
None == "None"

\* The paths of the modelled filesystem.
BlockDev == "/dev/sdb"
RegFile == "/data/img"
GenFile == "gen.tmp"
Missing == "/nope"
Paths == {BlockDev, RegFile, GenFile, Missing}

\* The filesystem before the program starts: one block device, one regular
\* file; the generated file does not exist yet.
InitFs == [p \in Paths |-> CASE p = BlockDev -> "blk"
                             [] p = RegFile -> "file"
                             [] OTHER -> "none"]

\* ------------------------------------------------------------ keyboard input
Digit == <<"0", "1", "2", "3", "4", "5", "6", "7", "8", "9">>

IsDigit(c) == \E d \in 1..10 : Digit[d] = c

DigitOf(c) == (CHOOSE d \in 1..10 : Digit[d] = c) - 1

RECURSIVE DigitsVal(_)
DigitsVal(s) ==
    IF s = <<>> THEN 0
    ELSE DigitsVal(SubSeq(s, 1, Len(s) - 1)) * 10 + DigitOf(s[Len(s)])

\* int(text): an optional sign followed by at least one digit; anything else
\* raises ValueError (ok = FALSE).
ParseInt(s) ==
    LET signed == Len(s) > 0 /\ s[1] \in {"-", "+"}
        body == IF signed THEN SubSeq(s, 2, Len(s)) ELSE s
    IN IF body # <<>> /\ \A k \in 1..Len(body) : IsDigit(body[k])
       THEN [ok |-> TRUE,
             val |-> IF signed /\ s[1] = "-" THEN 0 - DigitsVal(body)
                     ELSE DigitsVal(body)]
       ELSE [ok |-> FALSE, val |-> 0]

RECURSIVE NatStr(_)
NatStr(n) ==
    IF n < 10 THEN <<Digit[n + 1]>>
    ELSE NatStr(n \div 10) \o <<Digit[(n % 10) + 1]>>

\* What the operator types for the number n.
IntStr(n) == IF n < 0 THEN <<"-">> \o NatStr(0 - n) ELSE NatStr(n)

\* A text that is no number.
NonNumeric == {<<"a">>}

\* Answers to "Enter source number to delete/copy".
IndexInputs == {IntStr(n) : n \in -1..(MaxLen + 1)} \cup NonNumeric

\* Answers to "Enter the number of times to repeat the schema".
RepeatInputs == {IntStr(n) : n \in -1..MaxRepeat} \cup NonNumeric

\* Answers to "Enter target drive" and "Enter the full path to the source".
DeviceInputs == {BlockDev, RegFile, Missing}
PathInputs == {GenFile, Missing}

\* Answers to "Choose source type" (zeros differs from random only in the
\* metadata's if_device, so "z" is left to "r").
TypeInputs == {"r", "p", "x"}

\* Every answer to "Choose source type", for the menu on its own.
AllTypeInputs == {"r", "z", "p", "x"}

\* Answers to "Write source: (o)nce or (c)ontinuously?".
WriteModeInputs == {<<"o">>, <<"c">>}

\* Answers to "Enter dd flags or press Enter for default".
FlagInputs == {"", "bs=1M"}

\* ------------------------------------------------------------ pure functions
\* Python truth values kept in the metadata dictionary: True, False or None.
PyBool(b) == IF b THEN "True" ELSE "False"

Truthy(v) == v = "True"

\* os.path.exists(path), os.path.isfile(path).
PathExists(f, path) == f[path] # "none"

\* os.path.isdir where os.path.isfile was meant.
IsDirectory(f, path) == f[path] = "dir"

IsFile(f, path) == f[path] = "file"

\* The block-special test forgotten: any existing path passes.
is_block_device_exists(f, path) == PathExists(f, path)

\* is_block_device(path): the path exists and is block-special.
is_block_device(f, path) == PathExists(f, path) /\ f[path] = "blk"

\* build_dd_command: the command text, as the pieces the f-string joins.
build_dd_command(if_device, of_device, flags, continuous_write) ==
    IF Truthy(continuous_write)
    THEN <<"while :; do cat ", if_device, "; done | dd of=", of_device, " ", flags>>
    ELSE <<"dd if=", if_device, " of=", of_device, " ", flags>>

\* input(...).strip() or DEFAULT_DD_FLAGS
FlagsOrDefault(typed) == IF typed = "" THEN DEFAULT_DD_FLAGS ELSE typed

\* write_mode.startswith("c")
StartsWithC(mode) == Len(mode) > 0 /\ mode[1] = "c"

\* The initial metadata dictionary; a key the dictionary lacks reads as None.
InitMetadata ==
    [k \in {"random", "zeros", "path"} |->
        CASE k = "random" -> [if_device |-> "/dev/urandom",
                              requires_input_path |-> None,
                              continuous_write |-> "False"]
          [] k = "zeros" -> [if_device |-> "/dev/zero",
                             requires_input_path |-> None,
                             continuous_write |-> "False"]
          [] OTHER -> [if_device |-> None,
                       requires_input_path |-> "True",
                       continuous_write |-> None]]

\* The first letter of a source type key, which the menu matches.
KeyChar == [random |-> "r", zeros |-> "z", path |-> "p"]

\* next((key for key in source_types_metadata if typed == key[0]), None)
SourceTypeOf(typed) ==
    IF \E k \in DOMAIN KeyChar : KeyChar[k] = typed
    THEN CHOOSE k \in DOMAIN KeyChar : KeyChar[k] = typed
    ELSE None

\* The device-full marker of execute_command, in two chunks, and the chunks
\* a captured error text is made of.
DeviceFullMarker == <<"No space left", " on device">>
ErrChunks == {"No space left", " on device", "dd: error writing: "}

\* marker in text
Contains(text, marker) ==
    \E k \in 0..(Len(text) - Len(marker)) :
        SubSeq(text, k + 1, k + Len(marker)) = marker

RECURSIVE SeqsUpTo(_, _)
SeqsUpTo(S, n) ==
    IF n = 0 THEN {<<>>}
    ELSE LET shorter == SeqsUpTo(S, n - 1)
         IN shorter \cup {Append(t, c) : t \in shorter, c \in S}

\* What subprocess.run can do: raise, or return an exit status and an error
\* text.
Outcomes ==
    {[raised |-> TRUE, returncode |-> 0, stderr |-> <<>>]}
    \cup [raised : {FALSE}, returncode : {0, 1, 2}, stderr : SeqsUpTo(ErrChunks, MaxErrLen)]

\* A short list of outcomes with every classification in it, for the run loop.
RunOutcomes ==
    {o \in Outcomes : o.raised \/ o.stderr \in {<<>>, DeviceFullMarker}}

\* The device-full case forgotten: only exit status 0 is a success.
execute_command_zero_only(process) ==
    IF process.raised THEN FALSE ELSE process.returncode = 0

\* execute_command: True or False.
execute_command(process) ==
    IF process.raised THEN FALSE
    ELSE IF process.returncode = 0 THEN TRUE
    ELSE IF Contains(process.stderr, DeviceFullMarker) THEN TRUE
    ELSE FALSE

\* A return inside the loop: only the first tracked path is looked at.
RemoveTrackedFirst(f, files) ==
    IF files = <<>> THEN f
    ELSE IF f[Head(files)] = "file" THEN [f EXCEPT ![Head(files)] = "none"] ELSE f

\* The loop of cleanup: remove each tracked path that is a regular file.
RECURSIVE RemoveTracked(_, _)
RemoveTracked(f, files) ==
    IF files = <<>> THEN f
    ELSE LET t == Head(files)
             g == IF IsFile(f, t) THEN [f EXCEPT ![t] = "none"] ELSE f
         IN RemoveTracked(g, Tail(files))

\* The lower bound forgotten: -1 passes and names the last entry.
ValidIndexNoLower(source_number, length) == source_number < length

\* 0 <= source_number < len(schema_sources)
ValidIndex(source_number, length) == 0 <= source_number /\ source_number < length

\* The 1-based position a Python list index names (negative indices count
\* from the end); outside 1..length the access raises IndexError.
PyPos(source_number, length) ==
    IF source_number >= 0 THEN source_number + 1 ELSE length + source_number + 1

\* Object identity of schema entries: obj is the first position that holds
\* the same dictionary object.  Renumber after a removal.
Renumber(s) ==
    [j \in 1..Len(s) |->
        [s[j] EXCEPT !.obj = CHOOSE m \in 1..Len(s) :
            /\ s[m].obj = s[j].obj
            /\ \A m2 \in 1..Len(s) : s[m2].obj = s[j].obj => m <= m2]]

\* pop() in place of del: the last entry goes, whatever the position.
DeleteLast(s, pos) == Renumber(SubSeq(s, 1, Len(s) - 1))

\* del schema_sources[source_number]
DeleteAt(s, pos) ==
    Renumber([j \in 1..(Len(s) - 1) |-> IF j < pos THEN s[j] ELSE s[j + 1]])

\* The flags field filled with the default, whatever went into the command.
AppendNewDefaultFlags(s, device, type, flags, command) ==
    Append(s, [device |-> device, type |-> type, flags |-> DEFAULT_DD_FLAGS,
               command |-> command, obj |-> Len(s) + 1])

\* schema_sources.append({...}): a new dictionary object at the end.
AppendNew(s, device, type, flags, command) ==
    Append(s, [device |-> device, type |-> type, flags |-> flags,
               command |-> command, obj |-> Len(s) + 1])

\* The copy forgotten: the same dictionary object is appended again.
AppendAlias(s, pos) == Append(s, s[pos])

\* schema_sources.append(schema_sources[pos].copy()): a new object with the
\* same fields.
AppendCopy(s, pos) == Append(s, [s[pos] EXCEPT !.obj = Len(s) + 1])

\* print_schema: the numbered command lines it prints for the schema s.
print_schema(s) == [j \in 1..Len(s) |-> <<j, s[j].command>>]

\* -------------------------------------------------------------------- state
VARIABLES
    pc,                     \* where the process is: menu, gen_offer, while,
                            \* for, exec, exited (and classify)
    schema_sources,         \* the schema: a list of source dictionaries
    schema_repeat_count,    \* the repeat setting; 0 means run forever
    source_types_metadata,  \* the metadata dictionary (mutated by add)
    temp_files,             \* the tracked temporary files
    fs,                     \* the filesystem: path -> none, file or blk
    out,                    \* the last status line printed
    last,                   \* the last menu choice (or SIGINT), with the text typed
                            \* for the repeat count or the generated file's name
    run_count,              \* run_schema's run_count
    i,                      \* run_schema's position in the schema
    log,                    \* the invocations started, with their results
    engine,                 \* Idle, RunningPass, Completed or Aborted
    process,                \* the outcome execute_command is classifying
    classified              \* what execute_command returned for it

vars == <<pc, schema_sources, schema_repeat_count, source_types_metadata,
          temp_files, fs, out, last, run_count, i, log, engine, process, classified>>

runVars == <<run_count, i, log, engine>>
classifyVars == <<process, classified>>

\* The state after the module is loaded and __main__ has set the repeat count.
Init ==
    /\ pc = "menu"
    /\ schema_sources = <<>>
    /\ schema_repeat_count = 1
    /\ source_types_metadata = InitMetadata
    /\ temp_files = <<>>
    /\ fs = InitFs
    /\ out = ""
    /\ last = [op |-> "", typed |-> <<>>]
    /\ run_count = 0
    /\ i = 0
    /\ log = <<>>
    /\ engine = "Idle"
    /\ process = None
    /\ classified = None

\* ------------------------------------------------------------- menu handlers
\* One continuous_write for all types: the path entry's flag is read whatever
\* the type of the new source.
AddBuiltSticky(device, source_type, if_device, metadata) ==
    \E flagsTyped \in FlagInputs :
       LET flags == FlagsOrDefault(flagsTyped)
           command == build_dd_command(if_device, device, flags,
                          source_types_metadata'["path"].continuous_write)
       IN /\ schema_sources' =
               AppendNew(schema_sources, device, source_type, flags, command)
          /\ out' = "Source added successfully."

\* The end of add_source_to_schema: ask for the flags, build the command
\* from the metadata's continuous_write and append the source.
AddBuilt(device, source_type, if_device, metadata) ==
    \E flagsTyped \in FlagInputs :
       LET flags == FlagsOrDefault(flagsTyped)
           command == build_dd_command(if_device, device, flags,
                                       metadata.continuous_write)
       IN /\ schema_sources' =
               AppendNew(schema_sources, device, source_type, flags, command)
          /\ out' = "Source added successfully."

\* add_source_to_schema when the operator answers the type prompt from
\* types; each \E is an input() the handler reaches.
add_source(types) ==
    /\ pc = "menu"
    /\ last' = [op |-> "a", typed |-> <<>>]
    /\ UNCHANGED <<pc, schema_repeat_count, temp_files, fs, runVars, classifyVars>>
    /\ \E device \in DeviceInputs :
       IF ~is_block_device(fs, device)
       THEN /\ out' = "Invalid device path. Ensure it is a valid block device in /dev/."
            /\ UNCHANGED <<schema_sources, source_types_metadata>>
       ELSE \E typed \in types :
            LET source_type == SourceTypeOf(typed) IN
            IF source_type = None
            THEN /\ out' = "Invalid source type."
                 /\ UNCHANGED <<schema_sources, source_types_metadata>>
            ELSE LET metadata == source_types_metadata[source_type] IN
                 IF Truthy(metadata.requires_input_path)
                 THEN \E path \in PathInputs :
                      IF ~PathExists(fs, path)
                      THEN /\ out' = "Invalid path."
                           /\ UNCHANGED <<schema_sources, source_types_metadata>>
                      ELSE \E mode \in WriteModeInputs :
                           /\ source_types_metadata' =
                                [source_types_metadata EXCEPT
                                   ![source_type].continuous_write =
                                       PyBool(StartsWithC(mode))]
                           /\ AddBuilt(device, source_type, path,
                                       source_types_metadata'[source_type])
                 ELSE /\ UNCHANGED source_types_metadata
                      /\ AddBuilt(device, source_type, metadata.if_device, metadata)
    /\ Len(schema_sources') <= MaxLen

\* add_source_to_schema
add_source_to_schema == add_source(TypeInputs)

\* delete_source
delete_source(typed) ==
    /\ pc = "menu"
    /\ last' = [op |-> "d", typed |-> <<>>]
    /\ UNCHANGED <<schema_repeat_count, source_types_metadata, temp_files, fs,
                   runVars, classifyVars>>
    /\ IF schema_sources = <<>>
       THEN /\ out' = "No sources to delete."
            /\ UNCHANGED <<pc, schema_sources>>
       ELSE LET parsed == ParseInt(typed)
                source_number == parsed.val - 1
                pos == PyPos(source_number, Len(schema_sources))
            IN IF ~parsed.ok
               THEN /\ out' = "Please enter a valid number."
                    /\ UNCHANGED <<pc, schema_sources>>
               ELSE IF ValidIndex(source_number, Len(schema_sources))
               THEN IF pos \in 1..Len(schema_sources)
                    THEN /\ schema_sources' = DeleteAt(schema_sources, pos)
                         /\ out' = "Source deleted."
                         /\ UNCHANGED pc
                    ELSE /\ out' = "IndexError"
                         /\ pc' = "exited"
                         /\ UNCHANGED schema_sources
               ELSE /\ out' = "Invalid source number."
                    /\ UNCHANGED <<pc, schema_sources>>

\* copy_source
copy_source(typed) ==
    /\ pc = "menu"
    /\ last' = [op |-> "c", typed |-> <<>>]
    /\ UNCHANGED <<schema_repeat_count, source_types_metadata, temp_files, fs,
                   runVars, classifyVars>>
    /\ IF schema_sources = <<>>
       THEN /\ out' = "No sources to copy."
            /\ UNCHANGED <<pc, schema_sources>>
       ELSE LET parsed == ParseInt(typed)
                source_number == parsed.val - 1
                pos == PyPos(source_number, Len(schema_sources))
            IN IF ~parsed.ok
               THEN /\ out' = "Please enter a valid number."
                    /\ UNCHANGED <<pc, schema_sources>>
               ELSE IF ValidIndex(source_number, Len(schema_sources))
               THEN IF pos \in 1..Len(schema_sources)
                    THEN /\ schema_sources' = AppendCopy(schema_sources, pos)
                         /\ out' = "Source copied."
                         /\ UNCHANGED pc
                    ELSE /\ out' = "IndexError"
                         /\ pc' = "exited"
                         /\ UNCHANGED schema_sources
               ELSE /\ out' = "Invalid source number."
                    /\ UNCHANGED <<pc, schema_sources>>
    /\ Len(schema_sources') <= MaxLen

\* The sign check forgotten: a negative number is stored as typed.
RepeatCountForUnchecked(repeat_count) == repeat_count

\* A negative number clamped to 0 in place of 1.
RepeatCountForClamped(repeat_count) == IF repeat_count < 0 THEN 0 ELSE repeat_count

\* What set_repeat_count stores for a number the operator typed.
RepeatCountFor(repeat_count) == IF repeat_count < 0 THEN 1 ELSE repeat_count

\* set_repeat_count
set_repeat_count(typed) ==
    /\ pc = "menu"
    /\ last' = [op |-> "r", typed |-> typed]
    /\ UNCHANGED <<pc, schema_sources, source_types_metadata, temp_files, fs,
                   runVars, classifyVars>>
    /\ LET parsed == ParseInt(typed) IN
       IF ~parsed.ok
       THEN /\ out' = "Invalid input. Setting repeat count to 1 by default."
            /\ schema_repeat_count' = 1
       ELSE /\ out' = IF parsed.val < 0
                      THEN "Invalid input. Setting repeat count to 1 by default."
                      ELSE ""
            /\ schema_repeat_count' = RepeatCountFor(parsed.val)

\* create_data_file up to the offer: write the file and track it if asked;
\* limit bounds the tracked list.
write_data_file(filename, cleanup, limit) ==
    /\ pc = "menu"
    /\ last' = [op |-> "g", typed |-> <<filename>>]
    /\ fs' = [fs EXCEPT ![filename] = "file"]
    /\ temp_files' = IF cleanup THEN Append(temp_files, filename) ELSE temp_files
    /\ Len(temp_files') <= limit
    /\ out' = "Created file"
    /\ pc' = "gen_offer"
    /\ UNCHANGED <<schema_sources, schema_repeat_count, source_types_metadata,
                   runVars, classifyVars>>

\* create_data_file up to the offer.
create_data_file(filename, cleanup) == write_data_file(filename, cleanup, MaxTemp)

\* create_data_file from "Add this file to schema?" on.
offer_add(filename) ==
    /\ pc = "gen_offer"
    /\ last = [op |-> "g", typed |-> <<filename>>]
    /\ pc' = "menu"
    /\ UNCHANGED <<last, schema_repeat_count, source_types_metadata, temp_files, fs,
                   runVars, classifyVars>>
    /\ \E answer \in {"n", "y"} :
       IF answer = "n"
       THEN UNCHANGED <<schema_sources, out>>
       ELSE \E device \in DeviceInputs :
            IF ~is_block_device(fs, device)
            THEN /\ out' = "Invalid device path. Ensure it is a valid block device in /dev/."
                 /\ UNCHANGED schema_sources
            ELSE \E mode \in WriteModeInputs, flagsTyped \in FlagInputs :
                 LET flags == FlagsOrDefault(flagsTyped)
                     command == build_dd_command(filename, device, flags,
                                                 PyBool(StartsWithC(mode)))
                 IN /\ schema_sources' =
                         AppendNew(schema_sources, device, "path", flags, command)
                    /\ out' = "Source added successfully."
    /\ Len(schema_sources') <= MaxLen

\* ------------------------------------------------------------------ the run
\* The menu choice "done": run_schema starts.
done ==
    /\ pc = "menu"
    /\ pc' = "while"
    /\ last' = [op |-> "done", typed |-> <<>>]
    /\ out' = ""
    /\ run_count' = 0
    /\ i' = 0
    /\ log' = <<>>
    /\ engine' = "RunningPass"
    /\ UNCHANGED <<schema_sources, schema_repeat_count, source_types_metadata,
                   temp_files, fs, classifyVars>>

\* The zero case forgotten: repeat count 0 means no run at all.
WhileConditionCounted == run_count < schema_repeat_count

\* Off by one: one run too many.
WhileConditionInclusive == schema_repeat_count = 0 \/ run_count <= schema_repeat_count

\* while schema_repeat_count == 0 or run_count < schema_repeat_count
WhileCondition == schema_repeat_count = 0 \/ run_count < schema_repeat_count

\* run_count += 1 forgotten: the loop never counts its runs.
run_schema_while_no_count ==
    /\ pc = "while"
    /\ IF WhileCondition
       THEN /\ run_count < MaxRuns \/ schema_repeat_count > 0
            /\ i' = 1
            /\ out' = "Starting Schema Run"
            /\ pc' = "for"
            /\ UNCHANGED <<run_count, engine>>
       ELSE /\ out' = "Disk preparation completed."
            /\ engine' = "Completed"
            /\ pc' = "exited"
            /\ UNCHANGED <<run_count, i>>
    /\ UNCHANGED <<schema_sources, schema_repeat_count, source_types_metadata,
                   temp_files, fs, last, log, classifyVars>>

\* No break after run_schema(): a finished run hands control back to the
\* menu.
run_schema_while_to_menu ==
    /\ pc = "while"
    /\ IF WhileCondition
       THEN /\ run_count < MaxRuns \/ schema_repeat_count > 0
            /\ run_count' = run_count + 1
            /\ i' = 1
            /\ out' = "Starting Schema Run"
            /\ pc' = "for"
            /\ UNCHANGED engine
       ELSE /\ out' = "Disk preparation completed."
            /\ engine' = "Completed"
            /\ pc' = "menu"
            /\ UNCHANGED <<run_count, i>>
    /\ UNCHANGED <<schema_sources, schema_repeat_count, source_types_metadata,
                   temp_files, fs, last, log, classifyVars>>

\* The head of the while loop: start the next run, or finish: run_schema
\* returns, main_menu breaks and the script ends.
run_schema_while ==
    /\ pc = "while"
    /\ IF WhileCondition
       THEN /\ run_count < MaxRuns \/ schema_repeat_count > 0
            /\ run_count' = run_count + 1
            /\ i' = 1
            /\ out' = "Starting Schema Run"
            /\ pc' = "for"
            /\ UNCHANGED engine
       ELSE /\ out' = "Disk preparation completed."
            /\ engine' = "Completed"
            /\ pc' = "exited"
            /\ UNCHANGED <<run_count, i>>
    /\ UNCHANGED <<schema_sources, schema_repeat_count, source_types_metadata,
                   temp_files, fs, last, log, classifyVars>>

\* The for loop reaches source i: its command is handed to execute_command.
run_schema_invoke ==
    /\ pc = "for"
    /\ i <= Len(schema_sources)
    /\ log' = Append(log, [run |-> run_count, idx |-> i,
                           command |-> schema_sources[i].command, ok |-> None])
    /\ pc' = "exec"
    /\ UNCHANGED <<schema_sources, schema_repeat_count, source_types_metadata,
                   temp_files, fs, out, last, run_count, i, engine, classifyVars>>

\* Source lost its return: a failed pass is reported and the loop goes on.
on_result_continue(ok) ==
    /\ out' = IF ok THEN "Pass completed successfully." ELSE "Error during execution."
    /\ i' = i + 1
    /\ pc' = "for"
    /\ UNCHANGED engine

\* break in place of return: a failed pass ends the for loop only.
on_result_break(ok) ==
    IF ok
    THEN /\ out' = "Pass completed successfully."
         /\ i' = i + 1
         /\ pc' = "for"
         /\ UNCHANGED engine
    ELSE /\ out' = "Error during execution."
         /\ pc' = "while"
         /\ UNCHANGED <<i, engine>>

\* No break after run_schema(): a failed run hands control back to the menu.
on_result_to_menu(ok) ==
    IF ok
    THEN /\ out' = "Pass completed successfully."
         /\ i' = i + 1
         /\ pc' = "for"
         /\ UNCHANGED engine
    ELSE /\ out' = "Error during execution."
         /\ engine' = "Aborted"
         /\ pc' = "menu"
         /\ UNCHANGED i

\* What run_schema does with execute_command's answer.  On False run_schema
\* returns, main_menu breaks and the script ends.
on_result(ok) ==
    IF ok
    THEN /\ out' = "Pass completed successfully."
         /\ i' = i + 1
         /\ pc' = "for"
         /\ UNCHANGED engine
    ELSE /\ out' = "Error during execution."
         /\ engine' = "Aborted"
         /\ pc' = "exited"
         /\ UNCHANGED i

\* The invocation ends with some outcome; execute_command classifies it.
run_schema_result(outcome) ==
    /\ pc = "exec"
    /\ LET ok == execute_command(outcome) IN
       /\ log' = [log EXCEPT ![Len(log)].ok = PyBool(ok)]
       /\ on_result(ok)
    /\ UNCHANGED <<schema_sources, schema_repeat_count, source_types_metadata,
                   temp_files, fs, last, run_count, classifyVars>>

\* The for loop is past the last source: back to the while loop.
run_schema_end_of_run ==
    /\ pc = "for"
    /\ i > Len(schema_sources)
    /\ out' = IF schema_repeat_count > 0 THEN "Completed run" ELSE out
    /\ pc' = "while"
    /\ UNCHANGED <<schema_sources, schema_repeat_count, source_types_metadata,
                   temp_files, fs, last, runVars, classifyVars>>

\* SIGINT: the handler removes the tracked files and exits the process.
cleanup ==
    /\ pc \in {"menu", "gen_offer", "while", "for", "exec"}
    /\ fs' = RemoveTracked(fs, temp_files)
    /\ out' = "Process interrupted. Exiting."
    /\ last' = [op |-> "SIGINT", typed |-> <<>>]
    /\ pc' = "exited"
    /\ UNCHANGED <<schema_sources, schema_repeat_count, source_types_metadata,
                   temp_files, runVars, classifyVars>>

Next ==
    \/ add_source_to_schema
    \/ \E typed \in IndexInputs : delete_source(typed)
    \/ \E typed \in IndexInputs : copy_source(typed)
    \/ \E typed \in RepeatInputs : set_repeat_count(typed)
    \/ \E cleanupAnswer \in BOOLEAN : create_data_file(GenFile, cleanupAnswer)
    \/ offer_add(GenFile)
    \/ done
    \/ run_schema_while
    \/ run_schema_invoke
    \/ \E outcome \in RunOutcomes : run_schema_result(outcome)
    \/ run_schema_end_of_run
    \/ cleanup

Spec == Init /\ [][Next]_vars

\* ------------------------------------------- the run left to itself
\* The session without the interrupt.  Once run_schema is entered the
\* interpreter keeps executing it, and every invocation it waits for ends.
NextUninterrupted ==
    \/ add_source_to_schema
    \/ \E typed \in IndexInputs : delete_source(typed)
    \/ \E typed \in IndexInputs : copy_source(typed)
    \/ \E typed \in RepeatInputs : set_repeat_count(typed)
    \/ \E cleanupAnswer \in BOOLEAN : create_data_file(GenFile, cleanupAnswer)
    \/ offer_add(GenFile)
    \/ done
    \/ run_schema_while
    \/ run_schema_invoke
    \/ \E outcome \in RunOutcomes : run_schema_result(outcome)
    \/ run_schema_end_of_run

SpecUninterrupted ==
    /\ Init
    /\ [][NextUninterrupted]_vars
    /\ WF_vars(run_schema_while)
    /\ WF_vars(run_schema_invoke)
    /\ WF_vars(\E outcome \in RunOutcomes : run_schema_result(outcome))
    /\ WF_vars(run_schema_end_of_run)

\* --------------------------------------------- execute_command on its own
\* Any outcome of subprocess.run is handed to execute_command.
InitClassify ==
    /\ pc = "classify"
    /\ schema_sources = <<>>
    /\ schema_repeat_count = 1
    /\ source_types_metadata = InitMetadata
    /\ temp_files = <<>>
    /\ fs = InitFs
    /\ out = ""
    /\ last = [op |-> "", typed |-> <<>>]
    /\ run_count = 0
    /\ i = 0
    /\ log = <<>>
    /\ engine = "Idle"
    /\ process \in Outcomes
    /\ classified = None

Classify ==
    /\ pc = "classify"
    /\ classified' = PyBool(execute_command(process))
    /\ pc' = "classified"
    /\ UNCHANGED <<schema_sources, schema_repeat_count, source_types_metadata,
                   temp_files, fs, out, last, runVars, process>>

NextClassify == Classify

SpecClassify == InitClassify /\ [][NextClassify]_vars

\* ------------------------------------------------ the menu on its own
\* Building the schema, with every source type typed: add, delete and
\* generate, without the run.
NextBuild ==
    \/ add_source(AllTypeInputs)
    \/ \E typed \in IndexInputs : delete_source(typed)
    \/ \E cleanupAnswer \in BOOLEAN : create_data_file(GenFile, cleanupAnswer)
    \/ offer_add(GenFile)

SpecBuild == Init /\ [][NextBuild]_vars

\* ---------------------------------------------- the ledger on its own
\* Generating files, under the default name or over the existing regular
\* file, and the interrupt.
NextLedger ==
    \/ \E filename \in {GenFile, RegFile}, cleanupAnswer \in BOOLEAN :
          write_data_file(filename, cleanupAnswer, MaxTracked)
    \/ \E filename \in {GenFile, RegFile} : offer_add(filename)
    \/ cleanup

SpecLedger == Init /\ [][NextLedger]_vars

\* ------------------------------------------------------------------ claims
\* The log the run has when it performed the first n invocations of the
\* schema repeated over and over: run by run, in schema order.
ExpectedEntry(k) ==
    LET len == Len(schema_sources)
    IN [run |-> ((k - 1) \div len) + 1,
        idx |-> ((k - 1) % len) + 1,
        command |-> schema_sources[((k - 1) % len) + 1].command]

InOrder ==
    \A k \in 1..Len(log) :
        /\ log[k].run = ExpectedEntry(k).run
        /\ log[k].idx = ExpectedEntry(k).idx
        /\ log[k].command = ExpectedEntry(k).command

FailureSeen == \E k \in 1..Len(log) : log[k].ok = "False"

\* At a failure the engine is Aborted, the process is over, the failed
\* invocation is the last of the log and everything before it succeeded, in
\* schema order with the earlier runs complete.
AbortedShape ==
    FailureSeen =>
        /\ engine = "Aborted"
        /\ pc = "exited"
        /\ log[Len(log)].ok = "False"
        /\ \A k \in 1..(Len(log) - 1) : log[k].ok = "True"
        /\ InOrder
        /\ log[Len(log)].run = run_count
        /\ log[Len(log)].idx = i

\* C1: once an invocation is classified Failure the engine is Aborted and no
\* further invocation is started, in this run or a later one; the invocations
\* performed are the complete earlier runs, the sources before the failed one
\* and the failed one.
C1_FailureAborts ==
    /\ [](AbortedShape /\ (engine = "Aborted" => FailureSeen))
    /\ [][FailureSeen => log' = log /\ engine' = "Aborted"]_vars

C1_Witness ==
    /\ engine = "Aborted"
    /\ Len(schema_sources) = 2
    /\ Len(log) = 3
    /\ log[3].run = 2 /\ log[3].idx = 1 /\ log[3].ok = "False"

\* C2: with a repeat count N > 0 and no failed invocation, the run that ends
\* has invoked the sources in schema order, N runs of them, each source N
\* times, and the engine is Completed; Completed is reached in no other way.
C2_AllSucceedCompletes ==
    /\ (engine = "Completed" =>
            /\ schema_repeat_count > 0
            /\ run_count = schema_repeat_count
            /\ Len(log) = schema_repeat_count * Len(schema_sources)
            /\ InOrder
            /\ \A k \in 1..Len(log) : log[k].ok = "True"
            /\ \A j \in 1..Len(schema_sources) :
                 Cardinality({k \in 1..Len(log) : log[k].idx = j}) = schema_repeat_count)
    /\ (pc = "exited" /\ last.op = "done" /\ schema_repeat_count > 0 /\ ~FailureSeen
            => engine = "Completed")

C2_Witness ==
    /\ engine = "Completed"
    /\ schema_repeat_count = MaxRepeat
    /\ Len(schema_sources) = 2
    /\ schema_sources[1].command # schema_sources[2].command

\* C3: repeat count 0 and one source whose (first) invocation fails: the
\* engine is Aborted after that one invocation, which is never repeated.
C3_InfiniteRepeatFailsOnce ==
    (schema_repeat_count = 0 /\ Len(schema_sources) = 1
       /\ Len(log) >= 1 /\ log[1].ok = "False")
        => /\ Len(log) = 1
           /\ run_count = 1
           /\ engine = "Aborted"
           /\ pc = "exited"

C3_Witness ==
    /\ schema_repeat_count = 0
    /\ Len(schema_sources) = 1
    /\ Len(log) = 1
    /\ log[1].ok = "False"
    /\ engine = "Aborted"

\* The device-full marker is somewhere in the error text.
HasMarker(text) ==
    \E k \in 1..(Len(text) - 1) :
        text[k] = "No space left" /\ text[k + 1] = " on device"

\* C4: execute_command answers True exactly when the exit status is zero, or
\* it is non-zero and the error text holds the device-full marker; any other
\* non-zero exit and an invocation that raised are False.
C4_Classification ==
    pc = "classified" =>
        (classified = "True" <=>
            /\ ~process.raised
            /\ \/ process.returncode = 0
               \/ process.returncode # 0 /\ HasMarker(process.stderr))

C4_Witness ==
    /\ pc = "classified"
    /\ ~process.raised
    /\ process.returncode # 0
    /\ Len(process.stderr) = 3
    /\ HasMarker(process.stderr)
    /\ classified = "True"

\* C5 as claimed: a negative repeat count leaves the repeat count as it was.
C5_NegativeLeavesUnchanged ==
    [][set_repeat_count(IntStr(0 - 1)) => schema_repeat_count' = schema_repeat_count]_vars

\* C5 as amended: a negative repeat count is reported as invalid input and the
\* repeat count becomes 1, whatever it was; the schema is untouched.
C5_NegativeSetsOne ==
    [][set_repeat_count(IntStr(0 - 1)) =>
          /\ schema_repeat_count' = 1
          /\ out' = "Invalid input. Setting repeat count to 1 by default."
          /\ schema_sources' = schema_sources]_vars

C5_Witness ==
    /\ last = [op |-> "r", typed |-> <<"-", "1">>]
    /\ schema_repeat_count = 1
    /\ out = "Invalid input. Setting repeat count to 1 by default."
    /\ Len(schema_sources) > 0

\* What the operator types for the positions of the schema.
ValidIndexTexts == {IntStr(n) : n \in 1..Len(schema_sources)}

IndexErrors == {"No sources to delete.", "No sources to copy.",
                "Invalid source number.", "Please enter a valid number."}

\* C6: delete_source and copy_source with anything but a position of the
\* schema (0, a negative number, a position past the end, any text when the
\* schema is empty) print an error and leave the schema as it was.
C6_BadIndexNoOp ==
    [][\A typed \in IndexInputs \ ValidIndexTexts :
          (delete_source(typed) \/ copy_source(typed)) =>
              /\ schema_sources' = schema_sources
              /\ out' \in IndexErrors
              /\ pc' = "menu"]_vars

C6_Witness ==
    /\ last.op = "d"
    /\ out = "Invalid source number."
    /\ Len(schema_sources) = 2

C8_InterruptStopsAndFlushes ==
    /\ [](pc \in {"menu", "gen_offer", "while", "for", "exec"} => ENABLED cleanup)
    /\ [][(last.op # "SIGINT" /\ last'.op = "SIGINT") =>
             /\ pc' = "exited"
             /\ log' = log
             /\ \A k \in 1..Len(temp_files) : fs'[temp_files[k]] # "file"]_vars
    /\ [][pc = "exited" => pc' = "exited" /\ log' = log]_vars

C8_Witness ==
    /\ last.op = "SIGINT"
    /\ pc = "exited"
    /\ Len(log) = 2
    /\ log[2].ok = None
    /\ temp_files # <<>>
    /\ fs[GenFile] = "none"
    /\ \E j \in 1..Len(schema_sources) : schema_sources[j].command[2] = GenFile

\* C9 as claimed: when the process has ended, interrupted or after the run,
\* no tracked temporary file is left on the filesystem.
C9_TrackedRemovedAtExit ==
    pc = "exited" => \A k \in 1..Len(temp_files) : fs[temp_files[k]] # "file"

ValidationErrors ==
    {"Invalid device path. Ensure it is a valid block device in /dev/.",
     "Invalid source type.", "Invalid path."}

\* C10: an add that fails validation leaves the schema as it was, and an add
\* that changes the schema appends one entry whose target is a block device,
\* whose kind is a known one and, for add-source's path entries, whose input
\* path exists; so every entry of the schema has a block device as target.
C10_ValidatedBeforeAdd ==
    /\ [](\A j \in 1..Len(schema_sources) :
            /\ fs[schema_sources[j].device] = "blk"
            /\ schema_sources[j].type \in {"random", "zeros", "path"})
    /\ [][(add_source_to_schema \/ offer_add(GenFile)) =>
            /\ out' \in ValidationErrors => schema_sources' = schema_sources
            /\ schema_sources' # schema_sources =>
                 /\ Len(schema_sources') = Len(schema_sources) + 1
                 /\ SubSeq(schema_sources', 1, Len(schema_sources)) = schema_sources
                 /\ LET new == schema_sources'[Len(schema_sources')]
                    IN /\ fs[new.device] = "blk"
                       /\ new.type \in {"random", "zeros", "path"}
                       /\ new.type = "path" => fs[new.command[2]] # "none"]_vars

C10_Witness ==
    /\ last.op = "a"
    /\ out = "Invalid path."
    /\ Len(schema_sources) = 1
    /\ fs[GenFile] = "none"

\* The two documented command templates.
OnceTemplate(input, device, flags) ==
    <<"dd if=", input, " of=", device, " ", flags>>

LoopTemplate(input, device, flags) ==
    <<"while :; do cat ", input, "; done | dd of=", device, " ", flags>>

\* C11: the command of a new source is the single-invocation template or the
\* looping template over its own input, device and flags, whatever was added
\* before: random and zeros always get the single invocation, a path source
\* the template of the write mode chosen in that very add.
C11_CommandFromInputsOnly ==
    [][((add_source(AllTypeInputs) \/ offer_add(GenFile))
            /\ schema_sources' # schema_sources) =>
        LET new == schema_sources'[Len(schema_sources')]
            once(input) == OnceTemplate(input, new.device, new.flags)
            loop(input) == LoopTemplate(input, new.device, new.flags)
        IN /\ new.flags \in {DEFAULT_DD_FLAGS} \cup (FlagInputs \ {""})
           /\ new.type = "random" => new.command = once("/dev/urandom")
           /\ new.type = "zeros" => new.command = once("/dev/zero")
           /\ new.type = "path" =>
                \E path \in PathInputs :
                   /\ new.command \in {once(path), loop(path)}
                   /\ add_source(AllTypeInputs) =>
                        (new.command = loop(path)
                           <=> source_types_metadata'["path"].continuous_write = "True")]_vars

C11_Witness ==
    /\ last.op = "a"
    /\ Len(schema_sources) = 2
    /\ schema_sources[1].type = "path"
    /\ schema_sources[1].command =
          LoopTemplate(GenFile, BlockDev, "bs=1M")
    /\ schema_sources[2].type = "zeros"
    /\ schema_sources[2].command = OnceTemplate("/dev/zero", BlockDev, DEFAULT_DD_FLAGS)
    /\ source_types_metadata["path"].continuous_write = "True"

\* C12 as claimed: the flush removes every tracked path that still exists,
\* does not fail on a missing one, and clears the tracked set.
C12_FlushClears ==
    [][(last.op # "SIGINT" /\ last'.op = "SIGINT") =>
          /\ \A k \in 1..Len(temp_files) : fs'[temp_files[k]] # "file"
          /\ out' = "Process interrupted. Exiting."
          /\ temp_files' = <<>>]_vars

\* C12 as amended: the flush removes every tracked path that is still a
\* regular file and nothing else, does not fail on a tracked path that is
\* already missing, and leaves the tracked list as it is while the process
\* exits; the removal applied again to the result changes nothing.
C12_FlushRemovesKeepsList ==
    [][(last.op # "SIGINT" /\ last'.op = "SIGINT") =>
          /\ \A k \in 1..Len(temp_files) : fs'[temp_files[k]] # "file"
          /\ \A path \in Paths :
                (\A k \in 1..Len(temp_files) : temp_files[k] # path)
                    => fs'[path] = fs[path]
          /\ out' = "Process interrupted. Exiting."
          /\ pc' = "exited"
          /\ temp_files' = temp_files
          /\ RemoveTracked(fs', temp_files') = fs']_vars

C12_Witness ==
    /\ last.op = "SIGINT"
    /\ pc = "exited"
    /\ temp_files = <<GenFile, RegFile, GenFile>>
    /\ fs[GenFile] = "none"
    /\ fs[RegFile] = "none"

\* C13 as claimed: after the engine reached Aborted the process is alive and
\* the shell has control again: the schema can be run once more.
C13_AbortReturnsToShell ==
    engine = "Aborted" => (pc = "menu" /\ ENABLED done)

\* C13 as amended: a failed invocation ends the run and the process with it:
\* once the engine is Aborted the script has ended, and neither a menu choice
\* nor another run can follow.
C13_AbortEndsProcess ==
    engine = "Aborted" => (pc = "exited" /\ ~ENABLED Next)

C13_Witness ==
    /\ engine = "Aborted"
    /\ pc = "exited"
    /\ schema_repeat_count = 2
    /\ Len(schema_sources) = 2
    /\ Len(log) = 2
    /\ log[2].ok = "False"

\* The fields of a source dictionary.
Fields(e) == <<e.device, e.type, e.flags, e.command>>

\* s2 is s1 without its entry at position n, the others in their order.
Without(s1, n, s2) ==
    /\ Len(s2) = Len(s1) - 1
    /\ \A j \in 1..Len(s2) :
          Fields(s2[j]) = Fields(s1[IF j < n THEN j ELSE j + 1])

\* C14: delete_source with a position i of the schema removes that entry
\* alone: the entries before it stay, the entries after it move down by one.
\* Every change of the schema is such a removal or an append at the end, and
\* what print_schema lists and run_schema invokes is the schema in its order.
C14_DeleteShifts ==
    /\ [][\A n \in 1..Len(schema_sources) :
            delete_source(IntStr(n)) =>
               /\ Without(schema_sources, n, schema_sources')
               /\ out' = "Source deleted."
               /\ \A j \in 1..Len(schema_sources') :
                     print_schema(schema_sources')[j] =
                        <<j, schema_sources[IF j < n THEN j ELSE j + 1].command>>]_vars
    /\ [][schema_sources' # schema_sources =>
            \/ \E n \in 1..Len(schema_sources) :
                  Without(schema_sources, n, schema_sources')
            \/ /\ Len(schema_sources') = Len(schema_sources) + 1
               /\ SubSeq(schema_sources', 1, Len(schema_sources)) = schema_sources]_vars
    /\ [](\A k \in 1..Len(log) :
            /\ log[k].idx = ((k - 1) % Len(schema_sources)) + 1
            /\ <<log[k].idx, log[k].command>> = print_schema(schema_sources)[log[k].idx])

C14_Witness ==
    /\ last.op = "d"
    /\ out = "Source deleted."
    /\ Len(schema_sources) = 1
    /\ schema_sources[1].type = "path"
    /\ schema_sources[1].flags = "bs=1M"

\* Some menu handler that changes the schema or the repeat count can be
\* entered.
ShellOperationPossible ==
    \/ ENABLED add_source_to_schema
    \/ \E typed \in IndexInputs : ENABLED delete_source(typed)
    \/ \E typed \in IndexInputs : ENABLED copy_source(typed)
    \/ \E typed \in RepeatInputs : ENABLED set_repeat_count(typed)
    \/ \E cleanupAnswer \in BOOLEAN : ENABLED create_data_file(GenFile, cleanupAnswer)
    \/ ENABLED offer_add(GenFile)

\* C15: once run_schema has started (the engine has left Idle), and for ever
\* after, whether the run is going on, has ended Completed or Aborted or was
\* interrupted, no step changes the schema or the repeat count, the engine
\* never goes back to Idle, and no menu handler can be entered.
C15_ShellAndEngineExclusive ==
    /\ [][engine # "Idle" =>
            /\ schema_sources' = schema_sources
            /\ schema_repeat_count' = schema_repeat_count
            /\ engine' # "Idle"]_vars
    /\ [](engine # "Idle" =>
            /\ pc \in {"while", "for", "exec", "exited"}
            /\ ~ShellOperationPossible)
    /\ [](engine = "Idle" => pc \in {"menu", "gen_offer", "exited"})

C15_Witness ==
    /\ pc = "exec"
    /\ engine = "RunningPass"
    /\ Len(schema_sources) = 2
    /\ schema_repeat_count = 2
    /\ run_count = 2
    /\ Len(log) = 3

\* The command of entry e is one of the two templates over e's own device
\* and flags, reading the input of e's type.
CommandConsistent(e) ==
    /\ e.command[4] = e.device
    /\ e.command[6] = e.flags
    /\ e.command \in {OnceTemplate(e.command[2], e.device, e.flags),
                      LoopTemplate(e.command[2], e.device, e.flags)}
    /\ e.type = "random" => e.command[2] = "/dev/urandom"
    /\ e.type = "zeros" => e.command[2] = "/dev/zero"
    /\ e.type = "path" => e.command[2] \in PathInputs

\* C16: in every reachable state each entry's command is a template over the
\* entry's own device and flags; a step leaves every entry it keeps with the
\* command, device and flags it had, and the one entry it may add is built
\* from the inputs of that add or carries the fields of an existing entry
\* (the copy).
C16_CommandNeverRewritten ==
    /\ [](\A j \in 1..Len(schema_sources) : CommandConsistent(schema_sources[j]))
    /\ [][schema_sources' # schema_sources =>
            \/ \E n \in 1..Len(schema_sources) :
                  Without(schema_sources, n, schema_sources')
            \/ /\ Len(schema_sources') = Len(schema_sources) + 1
               /\ \A j \in 1..Len(schema_sources) :
                     Fields(schema_sources'[j]) = Fields(schema_sources[j])]_vars
    /\ [][\A typed \in IndexInputs :
            (copy_source(typed) /\ schema_sources' # schema_sources) =>
               \E k \in 1..Len(schema_sources) :
                  /\ IntStr(k) = typed
                  /\ Fields(schema_sources'[Len(schema_sources')]) =
                        Fields(schema_sources[k])]_vars
    /\ [][(pc \in {"while", "for", "exec"}) => schema_sources' = schema_sources]_vars

C16_Witness ==
    /\ engine = "Completed"
    /\ Len(schema_sources) = 2
    /\ schema_sources[1].type = "path"
    /\ schema_sources[1].flags = "bs=1M"
    /\ schema_sources[1].command = LoopTemplate(GenFile, BlockDev, "bs=1M")
    /\ Fields(schema_sources[2]) = Fields(schema_sources[1])
    /\ schema_repeat_count = 2

\* C17: the repeat count is 1 at the start and a natural number in every
\* reachable state; only set_repeat_count changes it, and a step makes it 0
\* only when the operator types 0.
C17_RepeatCountNonNegative ==
    /\ schema_repeat_count = 1
    /\ [](schema_repeat_count \in Nat)
    /\ [][schema_repeat_count' # schema_repeat_count =>
            \E typed \in RepeatInputs : set_repeat_count(typed)]_vars
    /\ [][(schema_repeat_count' = 0 /\ schema_repeat_count # 0) =>
            set_repeat_count(IntStr(0))]_vars
    /\ [][\A typed \in RepeatInputs :
            (set_repeat_count(typed) /\ typed # IntStr(0)) =>
               schema_repeat_count' > 0]_vars

C17_Witness ==
    /\ schema_repeat_count = 0
    /\ last = [op |-> "r", typed |-> IntStr(0)]
    /\ Len(schema_sources) = 1

\* C18: a run with repeat count N > 0 ends Completed or Aborted; it starts at
\* most N * len(schema) invocations, the k-th of them being the source at
\* position ((k - 1) mod len) + 1 in run ((k - 1) div len) + 1 <= N; with an
\* empty schema it ends Completed after N runs and no invocation.
C18_RunTerminates ==
    /\ (engine = "RunningPass" /\ schema_repeat_count > 0)
          ~> (engine \in {"Completed", "Aborted"})
    /\ (engine = "RunningPass" /\ schema_repeat_count > 0 /\ schema_sources = <<>>)
          ~> (engine = "Completed" /\ run_count = schema_repeat_count /\ log = <<>>)
    /\ [](schema_repeat_count > 0 =>
            /\ Len(log) <= schema_repeat_count * Len(schema_sources)
            /\ run_count <= schema_repeat_count
            /\ \A k \in 1..Len(log) :
                  /\ log[k].idx = ((k - 1) % Len(schema_sources)) + 1
                  /\ log[k].run = ((k - 1) \div Len(schema_sources)) + 1
                  /\ log[k].command = schema_sources[log[k].idx].command)
    /\ [](engine \in {"Completed", "Aborted"} => pc = "exited")

C18_Witness ==
    /\ engine = "Aborted"
    /\ schema_repeat_count = 2
    /\ Len(schema_sources) = 2
    /\ run_count = 2
    /\ Len(log) = 3
    /\ log[3].ok = "False"

\* The step is the SIGINT handler's.
Interrupted == last'.op = "SIGINT" /\ pc' = "exited"

\* C19: with repeat count 0 the engine is never Completed and the loop
\* condition is always true.  A run that has left the loop did so by a failed
\* invocation (Aborted) or by the interrupt; at the head of the loop the only
\* steps are the start of the next run and the interrupt, and a run whose
\* sources all succeeded, or that has no source, comes back to the head of
\* the loop with nothing invoked in between.
C19_ZeroNeverCompletes ==
    /\ [](schema_repeat_count = 0 => (engine # "Completed" /\ WhileCondition))
    /\ []((schema_repeat_count = 0 /\ engine = "RunningPass" /\ pc = "exited") =>
            last.op = "SIGINT")
    /\ []((schema_repeat_count = 0 /\ engine = "Aborted") =>
            (Len(log) >= 1 /\ log[Len(log)].ok = "False"))
    /\ []((schema_repeat_count = 0 /\ pc = "while" /\ run_count < MaxRuns) =>
            ENABLED run_schema_while)
    /\ [][(schema_repeat_count = 0 /\ pc = "while") =>
            \/ run_count' = run_count + 1 /\ pc' = "for" /\ engine' = "RunningPass"
            \/ Interrupted]_vars
    /\ [][(schema_repeat_count = 0 /\ pc = "for" /\ i > Len(schema_sources)) =>
            \/ pc' = "while" /\ engine' = "RunningPass" /\ log' = log
            \/ Interrupted]_vars
    /\ []((schema_repeat_count = 0 /\ schema_sources = <<>> /\ engine # "Idle") =>
            (log = <<>> /\ engine = "RunningPass"))

C19_Witness ==
    /\ schema_repeat_count = 0
    /\ schema_sources = <<>>
    /\ engine = "RunningPass"
    /\ pc = "while"
    /\ run_count = MaxRuns
    /\ log = <<>>

====
